---- MODULE Spec2Model ----
(***************************************************************************)
(* Model of the KGHS alumni backend (Express + Mongoose + jsonwebtoken).   *)
(* State is the content of the document store (User, News, BoardMinute,    *)
(* ForumThread, Donation collections), the payment gateway's transactions, *)
(* the mail provider's outbox, the wall clock, the tokens signed so far    *)
(* and the requests that are suspended at an await.  A handler is one      *)
(* action per stretch of code between two awaited store/adapter calls      *)
(* whose interleaving with other requests can be observed.                 *)
(*                                                                         *)
(* Environment assumptions: the store is reachable (the only store error   *)
(* modelled is the duplicate-key error of the unique email index),         *)
(* JWT_SECRET is configured, and the Mongoose library behaves as           *)
(* documented: Document#save sends the delta of the modified paths, and    *)
(* an array modified only by push() is sent as an atomic $push.            *)
(***************************************************************************)
EXTENDS Integers, Sequences, FiniteSets, TLC

VARIABLES users, now, issued, outbox, news, minutes, threads, gateway,
          donations, nreq, finished, reqs, last

vars == <<users, now, issued, outbox, news, minutes, threads, gateway,
          donations, nreq, finished, reqs, last>>

----------------------------------------------------------------------------
(* Bounds of the model *)

NumSlots == 2
MaxUsers == 3
MaxMail == 1
MaxTime == 8
MaxTokens == 2
MaxNews == 2
MaxMinutes == 1
MaxThreads == 1
MaxReplies == 3
MaxRefs == 1
MaxDonations == 2

(* Program constants *)

TokenTTL == 7
MinGradYear == 1950
GradYearSlack == 10
CurrentYear == 2026
MinorUnits == 100

(* Input domains *)

AdminEmail == "admin@kghs"
Emails == {AdminEmail, "a@kghs"}
Passwords == {"pw1", "pw2"}
Salts == {"s1"}
Years == {MinGradYear - 1, MinGradYear, CurrentYear + GradYearSlack,
          CurrentYear + GradYearSlack + 1}
Slots == 1..NumSlots

----------------------------------------------------------------------------
(* Libraries: bcryptjs and jsonwebtoken *)

BcryptHash(password, salt) == <<"$2a$10", salt, password>>

BcryptCompare(password, hash) == hash = BcryptHash(password, hash[2])

NoToken == [id |-> 0, iat |-> 0, exp |-> 0, sig |-> <<>>]

Hmac(id, iat, exp) == <<"HS256", id, iat, exp>>

JwtSign(id, t) ==
  [id |-> id, iat |-> t, exp |-> t + TokenTTL, sig |-> Hmac(id, t, t + TokenTTL)]

JwtVerifyNoExpiry(tok, t) == tok.sig = Hmac(tok.id, tok.iat, tok.exp)

JwtVerify(tok, t) == tok.sig = Hmac(tok.id, tok.iat, tok.exp) /\ t < tok.exp

(* A token whose payload was altered after signing keeps the old signature. *)
Tampered(tok) ==
  {[tok EXCEPT !.id = i] : i \in (DOMAIN users) \ {tok.id}}
    \cup {[tok EXCEPT !.exp = tok.exp + TokenTTL]}

TokenInputs == issued \cup {NoToken} \cup UNION {Tampered(t) : t \in issued}

----------------------------------------------------------------------------
(* Store: User collection *)

NewUser(email, hash) ==
  [email |-> email, password |-> hash, role |-> "alumni", isApproved |-> FALSE]

SeedAdmin ==
  [email |-> AdminEmail, password |-> BcryptHash("pw1", "s1"),
   role |-> "admin", isApproved |-> TRUE]

SeedAlumni ==
  [email |-> "a@kghs", password |-> BcryptHash("pw2", "s1"),
   role |-> "alumni", isApproved |-> TRUE]

(* User.findOne({ email }): the id of the first match, 0 for null *)
FindOne(store, email) ==
  IF \E i \in DOMAIN store : store[i].email = email
    THEN CHOOSE i \in DOMAIN store :
           /\ store[i].email = email
           /\ \A j \in DOMAIN store : store[j].email = email => i <= j
    ELSE 0

NoUniqueIndex(store, email) == FALSE

(* unique: true on email: an insert of a present email raises E11000 *)
DuplicateKey(store, email) == \E i \in DOMAIN store : store[i].email = email

----------------------------------------------------------------------------
(* Middleware *)

(* authMiddleware: 0 stands for next() *)
AuthMiddleware(tok, t) ==
  IF tok = NoToken THEN 401
  ELSE IF JwtVerify(tok, t) THEN 0
  ELSE 401

AnyKnownUser(store, id) == IF id \notin DOMAIN store THEN 403 ELSE 0

(* adminMiddleware: 0 stands for next() *)
AdminMiddleware(store, id) ==
  IF id \notin DOMAIN store \/ store[id].role # "admin" THEN 403 ELSE 0

(* authMiddleware followed by adminMiddleware *)
AdminGate(store, tok, t) ==
  IF AuthMiddleware(tok, t) # 0 THEN AuthMiddleware(tok, t)
  ELSE AdminMiddleware(store, tok.id)

----------------------------------------------------------------------------
(* Requests in flight *)

Idle == [pc |-> "idle"]

FreeSlot(s) == reqs[s] = Idle /\ \A r \in Slots : r < s => reqs[r] # Idle

InFlight(pc) == Cardinality({s \in Slots : reqs[s].pc = pc})

Pending == [op |-> "pending", status |-> 0]

----------------------------------------------------------------------------
(* POST /api/auth/signup *)

BadYear(year) == year < MinGradYear \/ year > CurrentYear + GradYearSlack

SignupStart(s, email, password, salt, year) ==
  /\ FreeSlot(s)
  /\ Len(users) + InFlight("signup_save") < MaxUsers
  /\ LET found == FindOne(users, email) IN
       IF found # 0
         THEN /\ last' = [op |-> "signup", status |-> 400, msg |-> "exists",
                          email |-> email, present |-> TRUE]
              /\ reqs' = reqs
       ELSE IF BadYear(year)
         THEN /\ last' = [op |-> "signup", status |-> 400, msg |-> "year",
                          email |-> email, present |-> FALSE]
              /\ reqs' = reqs
       ELSE /\ last' = Pending
            /\ reqs' = [reqs EXCEPT ![s] =
                 [pc |-> "signup_save", email |-> email,
                  hash |-> BcryptHash(password, salt)]]
  /\ UNCHANGED <<users, now, issued, outbox, news, minutes, threads, gateway,
                 donations, nreq, finished>>

SignupSave(s) ==
  /\ reqs[s].pc = "signup_save"
  /\ LET email == reqs[s].email
         present == \E i \in DOMAIN users : users[i].email = email IN
       IF DuplicateKey(users, email)
         THEN /\ users' = users
              /\ last' = [op |-> "signup", status |-> 500, msg |-> "server",
                          email |-> email, present |-> present]
         ELSE /\ users' = Append(users, NewUser(email, reqs[s].hash))
              /\ last' = [op |-> "signup", status |-> 200, msg |-> "pending",
                          email |-> email, present |-> present]
  /\ reqs' = [reqs EXCEPT ![s] = Idle]
  /\ UNCHANGED <<now, issued, outbox, news, minutes, threads, gateway,
                 donations, nreq, finished>>

----------------------------------------------------------------------------
(* POST /api/auth/login *)

LoginNoApprovalGate(store, email, password) ==
  LET id == FindOne(store, email) IN
    IF id = 0 THEN 400
    ELSE IF ~BcryptCompare(password, store[id].password) THEN 400
    ELSE 200

(* the status of the response *)
LoginStatus(store, email, password) ==
  LET id == FindOne(store, email) IN
    IF id = 0 THEN 400
    ELSE IF ~store[id].isApproved THEN 403
    ELSE IF ~BcryptCompare(password, store[id].password) THEN 400
    ELSE 200

Login(email, password) ==
  /\ LoginStatus(users, email, password) = 200
       => \/ JwtSign(FindOne(users, email), now) \in issued
          \/ Cardinality(issued) < MaxTokens
  /\ LET status == LoginStatus(users, email, password)
         id == FindOne(users, email)
         tok == IF status = 200 THEN JwtSign(id, now) ELSE NoToken IN
       /\ issued' = IF status = 200 THEN issued \cup {tok} ELSE issued
       /\ last' = [op |-> "login", status |-> status, email |-> email,
                   password |-> password, token |-> tok, at |-> now]
  /\ UNCHANGED <<users, now, outbox, news, minutes, threads, gateway,
                 donations, nreq, finished, reqs>>

----------------------------------------------------------------------------
(* GET /api/profile *)

GetProfile(tok) ==
  /\ LET gate == AuthMiddleware(tok, now) IN
       last' = [op |-> "getProfile", status |-> IF gate # 0 THEN gate ELSE 200,
                token |-> tok, at |-> now]
  /\ UNCHANGED <<users, now, issued, outbox, news, minutes, threads, gateway,
                 donations, nreq, finished, reqs>>

(* the wall clock, in days *)
Tick ==
  /\ now < MaxTime
  /\ now' = now + 1
  /\ last' = [op |-> "tick", status |-> 0]
  /\ UNCHANGED <<users, issued, outbox, news, minutes, threads, gateway,
                 donations, nreq, finished, reqs>>

----------------------------------------------------------------------------
(* PUT /api/admin/users/:id *)

(* User.findByIdAndUpdate(id, { isApproved }) *)
FindByIdAndUpdate(store, id, isApproved) ==
  IF id \in DOMAIN store
    THEN [store EXCEPT ![id].isApproved = isApproved]
    ELSE store

RollBackApproval(store, id) == [store EXCEPT ![id].isApproved = FALSE]

(* the catch block after a rejected transporter.sendMail: log and respond *)
AfterMailFailure(store, id) == store

AdminUpdateStart(s, tok, id, isApproved) ==
  /\ FreeSlot(s)
  /\ isApproved => Len(outbox) + InFlight("mail") < MaxMail
  /\ LET gate == AdminGate(users, tok, now) IN
       IF gate # 0
         THEN /\ last' = [op |-> "adminUpdate", status |-> gate, token |-> tok,
                          at |-> now, id |-> id, isApproved |-> isApproved,
                          admitted |-> FALSE, mailFailed |-> FALSE]
              /\ UNCHANGED <<users, reqs>>
         ELSE /\ users' = FindByIdAndUpdate(users, id, isApproved)
              /\ IF isApproved /\ id \in DOMAIN users
                   THEN /\ reqs' = [reqs EXCEPT ![s] =
                             [pc |-> "mail", id |-> id, token |-> tok]]
                        /\ last' = Pending
                   ELSE /\ reqs' = reqs
                        /\ last' = [op |-> "adminUpdate",
                                    status |-> IF isApproved THEN 500 ELSE 200,
                                    token |-> tok, at |-> now, id |-> id,
                                    isApproved |-> isApproved, admitted |-> TRUE,
                                    mailFailed |-> FALSE]
  /\ UNCHANGED <<now, issued, outbox, news, minutes, threads, gateway,
                 donations, nreq, finished>>

AdminUpdateMail(s, sent) ==
  /\ reqs[s].pc = "mail"
  /\ LET id == reqs[s].id IN
       /\ outbox' = IF sent THEN Append(outbox, users[id].email) ELSE outbox
       /\ users' = IF sent THEN users ELSE AfterMailFailure(users, id)
       /\ last' = [op |-> "adminUpdate", status |-> IF sent THEN 200 ELSE 500,
                   token |-> reqs[s].token, at |-> now, id |-> id,
                   isApproved |-> TRUE, admitted |-> TRUE, mailFailed |-> ~sent]
  /\ reqs' = [reqs EXCEPT ![s] = Idle]
  /\ UNCHANGED <<now, issued, news, minutes, threads, gateway, donations,
                 nreq, finished>>

----------------------------------------------------------------------------
(* Admin-gated routes: GET /api/admin/users, GET /api/donations,           *)
(* POST /api/news, POST /api/board-minutes                                 *)

GetAdminUsers(tok) ==
  /\ LET gate == AdminGate(users, tok, now) IN
       last' = [op |-> "getAdminUsers", status |-> IF gate # 0 THEN gate ELSE 200,
                token |-> tok, at |-> now, admitted |-> gate = 0]
  /\ UNCHANGED <<users, now, issued, outbox, news, minutes, threads, gateway,
                 donations, nreq, finished, reqs>>

GetDonations(tok) ==
  /\ LET gate == AdminGate(users, tok, now) IN
       last' = [op |-> "getDonations", status |-> IF gate # 0 THEN gate ELSE 200,
                token |-> tok, at |-> now, admitted |-> gate = 0]
  /\ UNCHANGED <<users, now, issued, outbox, news, minutes, threads, gateway,
                 donations, nreq, finished, reqs>>

PostNews(tok, title) ==
  /\ Len(news) < MaxNews
  /\ LET gate == AdminGate(users, tok, now) IN
       /\ news' = IF gate # 0 THEN news
                  ELSE Append(news, [title |-> title, author |-> tok.id])
       /\ last' = [op |-> "postNews", status |-> IF gate # 0 THEN gate ELSE 200,
                   token |-> tok, at |-> now, admitted |-> gate = 0]
  /\ UNCHANGED <<users, now, issued, outbox, minutes, threads, gateway,
                 donations, nreq, finished, reqs>>

(* file: "none" (no file part), "stored" (uploaded), "failed" (upload error, *)
(* which multer passes to Express' default error handler)                   *)
PostBoardMinutes(tok, file, hasTitle) ==
  /\ Len(minutes) < MaxMinutes
  /\ LET gate == AdminGate(users, tok, now)
         status == IF gate # 0 THEN gate
                   ELSE IF file = "failed" THEN 500
                   ELSE IF file = "none" THEN 400
                   ELSE IF ~hasTitle THEN 400
                   ELSE 200 IN
       /\ minutes' = IF status = 200
                       THEN Append(minutes, [title |-> "t", fileUrl |-> "url"])
                       ELSE minutes
       /\ last' = [op |-> "postBoardMinutes", status |-> status, token |-> tok,
                   at |-> now, admitted |-> gate = 0]
  /\ UNCHANGED <<users, now, issued, outbox, news, threads, gateway,
                 donations, nreq, finished, reqs>>

----------------------------------------------------------------------------
(* Forums: POST /api/forums and POST /api/forums/:id/reply                 *)

CreateThread(tok, title) ==
  /\ Len(threads) < MaxThreads
  /\ LET gate == AuthMiddleware(tok, now) IN
       /\ threads' = IF gate # 0 THEN threads
                     ELSE Append(threads, [title |-> title, author |-> tok.id,
                                           replies |-> <<>>])
       /\ last' = [op |-> "createThread", status |-> IF gate # 0 THEN gate ELSE 200,
                   caller |-> tok.id]
  /\ UNCHANGED <<users, now, issued, outbox, news, minutes, gateway,
                 donations, nreq, finished, reqs>>

ArrayUnshift(list, r) == <<r>> \o list

(* thread.replies.push(r) *)
ArrayPush(list, r) == Append(list, r)

SaveWholeArray(stored, loaded, r) == ArrayPush(loaded, r)

(* thread.save() of a document whose only change is replies.push(r):       *)
(* updateOne({_id}, {$push: {replies: {$each: [r]}}, $inc: {__v: 1}})      *)
SaveReplies(stored, loaded, r) == ArrayPush(stored, r)

(* authMiddleware, then ForumThread.findById.  seq and after are history:  *)
(* the request's number and the requests that had completed when it began. *)
ReplyLoad(s, tok, tid, content) ==
  /\ FreeSlot(s)
  /\ nreq < MaxReplies
  /\ LET gate == AuthMiddleware(tok, now) IN
       IF gate # 0
         THEN /\ last' = [op |-> "reply", status |-> gate, caller |-> tok.id]
              /\ UNCHANGED <<reqs, nreq>>
       ELSE IF tid \notin DOMAIN threads
         \* thread is null: the TypeError escapes the async handler, and
         \* Express sends no response
         THEN /\ last' = [op |-> "reply", status |-> 0, caller |-> tok.id]
              /\ UNCHANGED <<reqs, nreq>>
       ELSE /\ nreq' = nreq + 1
            /\ reqs' = [reqs EXCEPT ![s] =
                 [pc |-> "reply_save", tid |-> tid,
                  loaded |-> threads[tid].replies,
                  reply |-> [content |-> content, author |-> tok.id,
                             seq |-> nreq + 1,
                             after |-> {f.seq : f \in finished}]]]
            /\ last' = Pending
  /\ UNCHANGED <<users, now, issued, outbox, news, minutes, threads, gateway,
                 donations, finished>>

ReplySave(s) ==
  /\ reqs[s].pc = "reply_save"
  /\ LET tid == reqs[s].tid
         r == reqs[s].reply IN
       /\ threads' = [threads EXCEPT ![tid].replies =
                        SaveReplies(@, reqs[s].loaded, r)]
       /\ finished' = finished \cup
                        {[seq |-> r.seq, after |-> r.after, tid |-> tid,
                          reply |-> r, ord |-> Cardinality(finished) + 1]}
       /\ last' = [op |-> "reply", status |-> 200, caller |-> r.author,
                   tid |-> tid, body |-> ArrayPush(reqs[s].loaded, r)]
  /\ reqs' = [reqs EXCEPT ![s] = Idle]
  /\ UNCHANGED <<users, now, issued, outbox, news, minutes, gateway,
                 donations, nreq>>

----------------------------------------------------------------------------
(* Donations: create-payment, the gateway, verify                          *)

Amounts == {-1, 0, 1, 25}
Currencies == {"usd", "USD", "ngn", "eur"}

ToUpperCase(c) ==
  CASE c = "usd" -> "USD"
    [] c = "ngn" -> "NGN"
    [] c = "eur" -> "EUR"
    [] OTHER -> c

ValidCurrency(c) == IF ToUpperCase(c) = "USD" THEN "USD" ELSE "NGN"

InvalidAmount(amount) == amount = 0 \/ amount < 1

(* initialized: TRUE when paystack.transaction.initialize resolves *)
CreatePayment(tok, amount, currency, initialized) ==
  /\ Len(gateway) < MaxRefs
  /\ LET gate == AuthMiddleware(tok, now)
         status == IF gate # 0 THEN gate
                   ELSE IF InvalidAmount(amount) THEN 400
                   ELSE IF ~initialized THEN 500
                   ELSE 200 IN
       /\ gateway' = IF status = 200
                       THEN Append(gateway,
                              [amount |-> amount * MinorUnits,
                               currency |-> ValidCurrency(currency),
                               status |-> "abandoned"])
                       ELSE gateway
       /\ last' = [op |-> "createPayment", status |-> status, caller |-> tok.id]
  /\ UNCHANGED <<users, now, issued, outbox, news, minutes, threads,
                 donations, nreq, finished, reqs>>

(* the payer completes or fails the hosted payment *)
GatewaySettle(ref, outcome) ==
  /\ ref \in DOMAIN gateway
  /\ gateway[ref].status = "abandoned"
  /\ gateway' = [gateway EXCEPT ![ref].status = outcome]
  /\ last' = [op |-> "settle", status |-> 0]
  /\ UNCHANGED <<users, now, issued, outbox, news, minutes, threads,
                 donations, nreq, finished, reqs>>

AnyStatus(status) == TRUE

(* response.data.status === 'success' *)
IsSuccess(status) == status = "success"

InsertOncePerReference(dons, d) ==
  IF \E i \in DOMAIN dons : dons[i].ref = d.ref THEN dons ELSE Append(dons, d)

(* donation.save(); ref is history, the schema has no reference field.     *)
(* finished logs, as history, the verify requests answered with success.   *)
SaveDonation(dons, d) == Append(dons, d)

(* answered: TRUE when paystack.transaction.verify resolves *)
VerifyCall(s, tok, ref, answered) ==
  /\ FreeSlot(s)
  /\ Len(donations) + InFlight("verify_save") < MaxDonations
  /\ LET gate == AuthMiddleware(tok, now) IN
       IF gate # 0
         THEN /\ last' = [op |-> "verify", status |-> gate, caller |-> tok.id,
                          ref |-> ref]
              /\ reqs' = reqs
       ELSE IF ref \notin DOMAIN gateway \/ ~answered
         THEN /\ last' = [op |-> "verify", status |-> 500, caller |-> tok.id,
                          ref |-> ref]
              /\ reqs' = reqs
       ELSE IF ~IsSuccess(gateway[ref].status)
         THEN /\ last' = [op |-> "verify", status |-> 400, caller |-> tok.id,
                          ref |-> ref]
              /\ reqs' = reqs
       ELSE /\ last' = Pending
            /\ reqs' = [reqs EXCEPT ![s] =
                 [pc |-> "verify_save", ref |-> ref, caller |-> tok.id,
                  donation |-> [amount |-> gateway[ref].amount \div MinorUnits,
                                donor |-> tok.id, ref |-> ref]]]
  /\ UNCHANGED <<users, now, issued, outbox, news, minutes, threads, gateway,
                 donations, nreq, finished>>

VerifySave(s) ==
  /\ reqs[s].pc = "verify_save"
  /\ donations' = SaveDonation(donations, reqs[s].donation)
  /\ finished' = finished \cup
                   {[ord |-> Cardinality(finished) + 1, ref |-> reqs[s].ref,
                     caller |-> reqs[s].caller]}
  /\ last' = [op |-> "verify", status |-> 200, caller |-> reqs[s].caller,
              ref |-> reqs[s].ref]
  /\ reqs' = [reqs EXCEPT ![s] = Idle]
  /\ UNCHANGED <<users, now, issued, outbox, news, minutes, threads, gateway,
                 nreq>>

----------------------------------------------------------------------------
(* Initial states and specifications *)

Empty ==
  /\ outbox = <<>>
  /\ news = <<>>
  /\ minutes = <<>>
  /\ threads = <<>>
  /\ gateway = <<>>
  /\ donations = <<>>
  /\ nreq = 0
  /\ finished = {}
  /\ reqs = [s \in Slots |-> Idle]
  /\ last = [op |-> "init", status |-> 0]

(* A fresh deployment: the store holds the administrator's record only *)
Init ==
  /\ users = <<SeedAdmin>>
  /\ now = 0
  /\ issued = {}
  /\ Empty

(* Day TokenTTL of a deployment with an approved alumni: both users hold a  *)
(* token of that day, and the alumni holds one of day 0 as well            *)
InitSessions ==
  /\ users = <<SeedAdmin, SeedAlumni>>
  /\ now = TokenTTL
  /\ issued = {JwtSign(1, TokenTTL), JwtSign(2, TokenTTL), JwtSign(2, 0)}
  /\ Empty

(* An approved alumni, and the administrator who has just logged in *)
InitApproved ==
  /\ users = <<SeedAdmin, SeedAlumni>>
  /\ now = 0
  /\ issued = {JwtSign(1, 0)}
  /\ Empty

(* Signup, login and approval *)
Next ==
  \/ \E s \in Slots, e \in Emails, p \in Passwords, salt \in Salts, y \in Years :
       SignupStart(s, e, p, salt, y)
  \/ \E s \in Slots : SignupSave(s)
  \/ \E e \in Emails, p \in Passwords : Login(e, p)
  \/ \E s \in Slots, tok \in TokenInputs, id \in 1..(Len(users) + 1), a \in BOOLEAN :
       AdminUpdateStart(s, tok, id, a)
  \/ \E s \in Slots, sent \in BOOLEAN : AdminUpdateMail(s, sent)

Spec == Init /\ [][Next]_vars

(* Sessions over time: login, authenticated requests, revocation *)
NextSession ==
  \/ \E e \in Emails, p \in Passwords : Login(e, p)
  \/ \E tok \in TokenInputs : GetProfile(tok)
  \/ \E s \in Slots, tok \in TokenInputs, id \in 1..(Len(users) + 1) :
       AdminUpdateStart(s, tok, id, FALSE)
  \/ Tick

SpecSession == InitApproved /\ [][NextSession]_vars

(* Admin-gated routes *)
NextAdmin ==
  \/ \E tok \in TokenInputs : GetAdminUsers(tok)
  \/ \E tok \in TokenInputs : GetDonations(tok)
  \/ \E tok \in TokenInputs : PostNews(tok, "n")
  \/ \E tok \in TokenInputs, file \in {"none", "stored", "failed"},
        hasTitle \in BOOLEAN : PostBoardMinutes(tok, file, hasTitle)

SpecAdmin == InitSessions /\ [][NextAdmin]_vars

(* Forum threads and replies *)
NextForum ==
  \/ \E tok \in TokenInputs : CreateThread(tok, "t")
  \/ \E s \in Slots, tok \in TokenInputs, tid \in 1..(MaxThreads + 1) :
       ReplyLoad(s, tok, tid, "c")
  \/ \E s \in Slots : ReplySave(s)

SpecForum == InitSessions /\ [][NextForum]_vars

(* Donations *)
NextPay ==
  \/ \E tok \in TokenInputs, a \in Amounts, c \in Currencies, ok \in BOOLEAN :
       CreatePayment(tok, a, c, ok)
  \/ \E ref \in 1..MaxRefs, outcome \in {"success", "failed"} :
       GatewaySettle(ref, outcome)
  \/ \E s \in Slots, tok \in TokenInputs, ref \in 1..(MaxRefs + 1),
        ok \in BOOLEAN : VerifyCall(s, tok, ref, ok)
  \/ \E s \in Slots : VerifySave(s)

SpecPay == InitSessions /\ [][NextPay]_vars

----------------------------------------------------------------------------
(* Properties *)

Matches(id, password) == BcryptCompare(password, users[id].password)

\* C1: for every registered user, approved or not, a login with that user's
\* email and a wrong password is answered 400 'Invalid credentials' without a
\* token.
WrongPasswordInvalidCredentials ==
  last.op = "login" =>
    LET id == FindOne(users, last.email) IN
      (id # 0 /\ ~Matches(id, last.password))
        => last.status = 400 /\ last.token = NoToken

\* C2: a login for a user whose isApproved is false is answered with the
\* pending-approval error (403) and no token, whatever the password; a token
\* is issued only to an approved user whose password matches, and binds that
\* user's id.
PendingUserGetsNoToken ==
  last.op = "login" =>
    LET id == FindOne(users, last.email) IN
      /\ (id # 0 /\ ~users[id].isApproved)
           => last.status = 403 /\ last.token = NoToken
      /\ last.token # NoToken
           => /\ id # 0
              /\ users[id].isApproved
              /\ Matches(id, last.password)
              /\ last.token.id = id
              /\ last.status = 200
      /\ last.status = 200 => last.token # NoToken

PendingUserRefused ==
  /\ last.op = "login"
  /\ LET id == FindOne(users, last.email) IN
       /\ id # 0
       /\ ~users[id].isApproved
       /\ Matches(id, last.password)
       /\ last.status = 403

\* C3: a signup for an email that is present in the User collection, when the
\* request looks it up or when it saves, is answered with an error, and no two
\* User records ever share an email, interleaved signups included.
EmailUnique ==
  /\ \A i, j \in DOMAIN users : users[i].email = users[j].email => i = j
  /\ (last.op = "signup" /\ last.present) => last.status \in {400, 500}

InterleavedSignupRejected ==
  /\ last.op = "signup"
  /\ last.status = 500
  /\ last.present
  /\ Cardinality({i \in DOMAIN users : users[i].email = last.email}) = 1

AdminOps == {"getAdminUsers", "getDonations", "postNews", "postBoardMinutes"}

ValidToken(tok, t) == tok \in issued /\ t < tok.iat + TokenTTL

CallerIsAdmin(r) ==
  /\ ValidToken(r.token, r.at)
  /\ r.token.id \in DOMAIN users
  /\ users[r.token.id].role = "admin"

\* C4 as stated: on the admin-gated routes a caller whose record has role
\* admin is admitted past the middleware, and every other caller is answered
\* 403 (forbidden) without being admitted.
OnlyAdminElseForbidden ==
  last.op \in AdminOps =>
    IF CallerIsAdmin(last) THEN last.admitted
    ELSE last.status = 403 /\ ~last.admitted

\* C4 as amended: on the admin-gated routes only a caller whose record has
\* role admin is admitted past the middleware; a caller with a valid token of
\* a non-admin is answered 403, a caller with a missing, expired or tampered
\* token is answered 401, and in both cases no News or BoardMinute record is
\* created.
OnlyAdminElseRejected ==
  [][last'.op \in AdminOps =>
       IF CallerIsAdmin(last') THEN last'.admitted
       ELSE /\ ~last'.admitted
            /\ last'.status =
                 (IF ValidToken(last'.token, last'.at) THEN 403 ELSE 401)
            /\ news' = news
            /\ minutes' = minutes]_vars

AlumniForbidden ==
  /\ last.op = "postNews"
  /\ last.status = 403
  /\ ValidToken(last.token, last.at)
  /\ users[last.token.id].role = "alumni"
  /\ ~last.admitted

\* C5: the Donation collection changes only when a verify request whose
\* gateway answer was status "success" saves its record; create-payment never
\* changes it, and a verify request that is not answered 200 (gateway status
\* other than "success", gateway failure) leaves it unchanged.
DonationOnlyOnVerifiedSuccess ==
  [][/\ donations' # donations
          => \E s \in Slots :
               /\ reqs[s].pc = "verify_save"
               /\ reqs'[s] = Idle
               /\ gateway[reqs[s].ref].status = "success"
               /\ donations' = Append(donations, reqs[s].donation)
               /\ last'.op = "verify"
               /\ last'.status = 200
     /\ last'.op = "createPayment" => donations' = donations
     /\ (last'.op = "verify" /\ last'.status # 200) => donations' = donations
     /\ (/\ last'.op = "verify"
         /\ \/ last'.ref \notin DOMAIN gateway
            \/ gateway[last'.ref].status # "success")
          => last'.status \in {400, 401, 500}]_vars

FailedPaymentNotRecorded ==
  /\ last.op = "verify"
  /\ last.status = 400
  /\ last.ref \in DOMAIN gateway
  /\ gateway[last.ref].status = "failed"
  /\ donations = <<>>

\* C6: a request carrying a token issued at login is authenticated as long as
\* fewer than TokenTTL days have passed since its issue, whatever the user's
\* isApproved is by then; a missing, expired or tampered token is answered 401.
TokenValidUntilExpiry ==
  last.op = "getProfile" =>
    LET t == last.token IN
      /\ (t \in issued /\ last.at < t.iat + TokenTTL) => last.status = 200
      /\ (t = NoToken \/ t \notin issued \/ last.at >= t.iat + TokenTTL)
           => last.status = 401

RevokedUserStillAuthenticated ==
  /\ last.op = "getProfile"
  /\ last.status = 200
  /\ ~users[last.token.id].isApproved
  /\ \E p \in Passwords :
       /\ Matches(last.token.id, p)
       /\ LoginStatus(users, users[last.token.id].email, p) = 403

RepliesOf(tid) == threads[tid].replies

FinishedOn(tid) == {f \in finished : f.tid = tid}

Overlapping(p, q) == p.seq \notin q.after /\ q.seq \notin p.after

Sequential(F) == \A p, q \in F : p # q => ~Overlapping(p, q)

\* C7: when the reply requests completed on a thread were sequential (each
\* began after the previous one had completed), the thread's replies are
\* exactly the replies of those requests, in request order.
SequentialRepliesInOrder ==
  \A tid \in DOMAIN threads :
    LET F == FinishedOn(tid)
        rs == RepliesOf(tid) IN
      Sequential(F) =>
        /\ Len(rs) = Cardinality(F)
        /\ \A i \in DOMAIN rs :
             \E f \in F :
               /\ f.reply = rs[i]
               /\ Cardinality({g \in F : g.seq <= f.seq}) = i

TwoSequentialReplies ==
  \E tid \in DOMAIN threads :
    /\ Cardinality(FinishedOn(tid)) >= 2
    /\ Sequential(FinishedOn(tid))
    /\ Len(RepliesOf(tid)) >= 2

Stored(tid, f) == \E i \in DOMAIN RepliesOf(tid) : RepliesOf(tid)[i] = f.reply

\* C8 as stated: the save writes the whole loaded thread back, so of two
\* completed reply requests to a thread that both loaded it before either
\* saved, the stored thread holds only one's reply.
ConcurrentReplyLost ==
  \A p, q \in finished :
    (p # q /\ p.tid = q.tid /\ Overlapping(p, q))
      => ~(Stored(p.tid, p) /\ Stored(q.tid, q))

\* C8 as amended: the save appends the request's own reply to the stored
\* array, so the stored thread holds the reply of every completed reply
\* request, concurrent ones included, in the order of their saves.
ConcurrentRepliesBothStored ==
  \A tid \in DOMAIN threads :
    LET F == FinishedOn(tid)
        rs == RepliesOf(tid) IN
      /\ Len(rs) = Cardinality(F)
      /\ \A f \in F : rs[Cardinality({g \in F : g.ord <= f.ord})] = f.reply

RacingRepliesBothStored ==
  \E p, q \in finished :
    /\ p # q
    /\ p.tid = q.tid
    /\ Overlapping(p, q)
    /\ Stored(p.tid, p)
    /\ Stored(q.tid, q)

\* C9: every verify request answered with success has inserted its own
\* Donation record, attributed to its caller, whether or not a record of the
\* same reference existed: the k-th such answer is the k-th Donation.
VerifyInsertsEveryTime ==
  /\ Len(donations) = Cardinality(finished)
  /\ \A f \in finished :
       /\ f.ord \in DOMAIN donations
       /\ donations[f.ord].ref = f.ref
       /\ donations[f.ord].donor = f.caller

DuplicateDonations ==
  \E i, j \in DOMAIN donations :
    /\ i # j
    /\ donations[i].ref = donations[j].ref
    /\ donations[i].donor # donations[j].donor

\* C10: an approving update writes isApproved = true before the mail is sent
\* (the request waits on the mail with the write applied and nothing sent);
\* when the send fails the response is 500, the store is left as it is and
\* nothing is sent, so the user, still approved, can log in; an update with
\* isApproved = false sends no mail.
ApprovalSurvivesMailFailure ==
  [][/\ \A s \in Slots :
          /\ (reqs[s].pc # "mail" /\ reqs'[s].pc = "mail")
               => /\ users'[reqs'[s].id].isApproved
                  /\ outbox' = outbox
          /\ (reqs[s].pc = "mail" /\ reqs'[s].pc # "mail")
               => /\ last'.op = "adminUpdate"
                  /\ users' = users
                  /\ IF last'.mailFailed
                       THEN /\ last'.status = 500
                            /\ outbox' = outbox
                            /\ users[reqs[s].id].isApproved
                                 => \E p \in Passwords :
                                      LoginStatus(users', users[reqs[s].id].email, p) = 200
                       ELSE /\ last'.status = 200
                            /\ outbox' = Append(outbox, users[reqs[s].id].email)
     /\ (last'.op = "adminUpdate" /\ ~last'.isApproved)
          => /\ outbox' = outbox
             /\ \A s \in Slots : reqs'[s].pc = "mail" => reqs[s].pc = "mail"]_vars

ApprovedDespiteMailFailure ==
  /\ last.op = "adminUpdate"
  /\ last.mailFailed
  /\ last.status = 500
  /\ users[last.id].role = "alumni"
  /\ users[last.id].isApproved
  /\ \E p \in Passwords : LoginStatus(users, users[last.id].email, p) = 200

====
